---- MODULE Spec2Model ----
(* Model of the CalDAV synchronisation provider of Errands                  *)
(* (src/errands/lib/sync/providers/caldav.py) together with the local data  *)
(* store it drives and the remote calendar server it talks to.              *)
EXTENDS Integers, Sequences, FiniteSets, TLC

----------------------------------------------------------------------------
(* Bounds of the model *)

\* number of sync() calls explored in one behaviour
MaxSyncs == 2
\* number of remote operations that fail in one sync() run
MaxFails == 1
MaxRows == 2

ListOrder == <<"L1", "L2">>
TaskOrder == <<"T1", "T2">>
ListUids == {ListOrder[i] : i \in 1..Len(ListOrder)}
TaskUids == {TaskOrder[i] : i \in 1..Len(TaskOrder)}
Names == {"a", "b"}

----------------------------------------------------------------------------
(* Sequence helpers *)

Range(s) == {s[i] : i \in 1..Len(s)}

RECURSIVE FilterSeq(_, _)
\* [x for x in s if x in keep]
FilterSeq(s, keep) ==
    IF s = <<>> THEN <<>>
    ELSE IF Head(s) \in keep THEN <<Head(s)>> \o FilterSeq(Tail(s), keep)
         ELSE FilterSeq(Tail(s), keep)

Count(s, x) == Cardinality({i \in 1..Len(s) : s[i] = x})

----------------------------------------------------------------------------
(* Data shapes *)

\* UpdateUIArgs(): the change-set of one run, all fields at their defaults
UpdateUIArgs ==
    [update_trash |-> FALSE, update_tags |-> FALSE,
     tasks_to_add |-> <<>>, tasks_to_update |-> <<>>, tasks_to_purge |-> <<>>,
     lists_to_add |-> <<>>, lists_to_update_name |-> <<>>,
     lists_to_purge_uids |-> <<>>]

\* the TaskData attributes __update_local_task never copies from the remote side
Bookkeeping == {"synced", "trash", "expanded", "toolbar_shown", "deleted", "notified"}

\* the TaskData attributes of the model
TaskKeys == {"uid", "list_uid", "priority", "tags", "parent", "changed_at"} \cup Bookkeeping

\* TaskData(...) as built by __get_tasks: decoded attributes, every other field default
TaskData(uid, list_uid, priority, tags, parent, changed_at) ==
    [uid |-> uid, list_uid |-> list_uid, priority |-> priority, tags |-> tags,
     parent |-> parent, changed_at |-> changed_at,
     synced |-> FALSE, trash |-> FALSE, expanded |-> FALSE,
     toolbar_shown |-> FALSE, deleted |-> FALSE, notified |-> FALSE]

\* a remote to-do: `has` is the set of properties present in its component
Todo(uid, has, priority, categories, related_to, last_modified) ==
    [uid |-> uid, has |-> has, priority |-> priority, categories |-> categories,
     related_to |-> related_to, last_modified |-> last_modified]

----------------------------------------------------------------------------
(* Local data store (UserData): task lists and tasks, kept as ordered records *)

\* UserData.add_list(name, uuid, synced): a new list record at the end
add_list(ls, name, uuid, synced) ==
    Append(ls, [uid |-> uuid, name |-> name, synced |-> synced, deleted |-> FALSE])

\* UserData.update_list_props(uid, props, values): only the named fields change
update_list_props(ls, uid, props, vals) ==
    [i \in 1..Len(ls) |->
        IF ls[i].uid = uid
        THEN [k \in DOMAIN ls[i] |-> IF k \in props THEN vals[k] ELSE ls[i][k]]
        ELSE ls[i]]

\* UserData.delete_list(uid): the list record is removed
delete_list(ls, uid) == SelectSeq(ls, LAMBDA l : l.uid # uid)

\* UserData.delete_list(uid), task side: the tasks of the list go with it
delete_list_tasks(ts, uid) == SelectSeq(ts, LAMBDA t : t.list_uid # uid)

\* UserData.get_tasks_as_dicts(list_uid): every task of the list, tombstones included
get_tasks_as_dicts(ts, list_uid) == SelectSeq(ts, LAMBDA t : t.list_uid = list_uid)

\* UserData.update_props(list_uid, uid, props, values): only the named fields change
update_props(ts, list_uid, uid, props, vals) ==
    [i \in 1..Len(ts) |->
        IF ts[i].list_uid = list_uid /\ ts[i].uid = uid
        THEN [k \in DOMAIN ts[i] |-> IF k \in props THEN vals[k] ELSE ts[i][k]]
        ELSE ts[i]]

\* UserData.delete_task(list_uid, uid): the task record is removed
delete_task(ts, list_uid, uid) ==
    SelectSeq(ts, LAMBDA t : ~(t.list_uid = list_uid /\ t.uid = uid))

\* UserData.add_task(**fields): a new task record at the end
add_task(ts, task) == Append(ts, task)

----------------------------------------------------------------------------
(* Remote task codec *)

RECURSIVE Join(_)
\* ",".join(tags)
Join(tags) ==
    IF tags = <<>> THEN ""
    ELSE IF Len(tags) = 1 THEN tags[1]
         ELSE tags[1] \o "," \o Join(Tail(tags))

\* one iteration of the loop of __get_tasks: a to-do decoded into a TaskData;
\* an absent property decodes to its default
DecodeTodo(todo, cal_id) ==
    TaskData(todo.uid, cal_id,
             IF "priority" \in todo.has THEN todo.priority ELSE 0,
             IF "categories" \in todo.has THEN todo.categories ELSE <<>>,
             IF "related-to" \in todo.has THEN todo.related_to ELSE "",
             IF "last-modified" \in todo.has THEN todo.last_modified ELSE "")

\* __get_tasks(calendar): every to-do of the calendar, decoded, in server order
get_tasks(cal) == [i \in 1..Len(cal.todos) |-> DecodeTodo(cal.todos[i], cal.id)]

\* todo.save(): the component is serialised one content line per value, so a
\* property whose value is the empty list leaves no line in the stored to-do
Saved(component) ==
    [component EXCEPT !.has = IF component.categories = <<>>
                              THEN @ \ {"categories"} ELSE @]

\* line 432 assigning a list holding one empty tag when the task has no tags
PushedComponentBlankTag(todo, task) ==
    Todo(todo.uid,
         (todo.has \cup {"priority", "categories", "related-to"} \cup
             (IF task.changed_at # "" THEN {"last-modified"} ELSE {}))
           \ (IF task.changed_at = "" THEN {"last-modified"} ELSE {}),
         task.priority,
         IF task.tags # <<>> THEN task.tags ELSE <<"">>,
         task.parent,
         task.changed_at)

\* lines 407-434: the component as __update_remote_task leaves it: every pushed
\* property is set, an empty date clears its property, an empty tag list is
\* assigned as []
PushedComponent(todo, task) ==
    Todo(todo.uid,
         (todo.has \cup {"priority", "categories", "related-to"} \cup
             (IF task.changed_at # "" THEN {"last-modified"} ELSE {}))
           \ (IF task.changed_at = "" THEN {"last-modified"} ELSE {}),
         task.priority,
         task.tags,
         task.parent,
         task.changed_at)

\* the to-do on the server after the Push of __update_remote_task
PushedTodo(todo, task) == Saved(PushedComponent(todo, task))

\* the to-do created by calendar.save_todo(...) in __create_remote_task: a None
\* argument leaves its property out, the tags travel as one joined string, and
\* neither dtstamp nor last-modified is passed
CreatedTodo(task) ==
    Todo(task.uid,
         {"priority", "related-to"} \cup
             (IF task.tags # <<>> THEN {"categories"} ELSE {}),
         task.priority,
         IF task.tags # <<>> THEN <<Join(task.tags)>> ELSE <<>>,
         task.parent,
         "")

----------------------------------------------------------------------------
(* Remote calendar server *)

\* the remote operations of one run that can raise, each with the uid it acts on
FailPoints ==
    {<<"probe1", "">>, <<"probe2", "">>}
    \cup ({"rename", "delete_cal", "make_calendar", "todos"} \X ListUids)
    \cup ({"save", "delete_todo"} \X TaskUids)


CalIds(rem) == {rem[i].id : i \in 1..Len(rem)}

Uids(ts) == {ts[i].uid : i \in 1..Len(ts)}

\* a task-capable calendar with this id exists on the server
VtodoCal(rem, id) == \E i \in 1..Len(rem) : rem[i].id = id /\ rem[i].vtodo

\* the calendar with this id holds a to-do with this uid
TodoIn(rem, id, uid) ==
    \E i \in 1..Len(rem) : rem[i].id = id /\ uid \in Uids(rem[i].todos)

\* the server's calendar with this id
CalById(rem, id) == rem[CHOOSE i \in 1..Len(rem) : rem[i].id = id]

\* __update_calendars without the supported-components test
update_calendars_unfiltered(rem) ==
    [i \in 1..Len(rem) |-> [id |-> rem[i].id, name |-> rem[i].name]]

\* the list comprehension of __update_calendars: the calendars that support VTODO,
\* each with the id and the name it had when it was listed
update_calendars(rem) ==
    LET vt == SelectSeq(rem, LAMBDA c : c.vtodo)
    IN [i \in 1..Len(vt) |-> [id |-> vt[i].id, name |-> vt[i].name]]

\* cal.set_properties([dav.DisplayName(name)])
SetDisplayName(rem, id, name) ==
    [i \in 1..Len(rem) |-> IF rem[i].id = id THEN [rem[i] EXCEPT !.name = name] ELSE rem[i]]

\* cal.delete()
DeleteCalendar(rem, id) == SelectSeq(rem, LAMBDA c : c.id # id)

\* make_calendar without supported_calendar_component_set
MakeCalendarNoComponents(rem, id, name) ==
    Append(rem, [id |-> id, name |-> name, vtodo |-> FALSE, todos |-> <<>>])

\* principal.make_calendar(cal_id, ["VTODO"], name); the server refuses an id in use
MakeCalendar(rem, id, name) ==
    Append(rem, [id |-> id, name |-> name, vtodo |-> TRUE, todos |-> <<>>])

\* the to-dos of one calendar replaced
WithTodos(rem, id, todos) ==
    [i \in 1..Len(rem) |-> IF rem[i].id = id THEN [rem[i] EXCEPT !.todos = todos] ELSE rem[i]]

----------------------------------------------------------------------------
(* sync(): list reconciliation.  A run is threaded through a record s:        *)
(*   lists, tasks   the local store           remote     the server           *)
(*   calendars      self.calendars            ui         self.update_ui_args  *)
(*   st             "run", or how the run ended                               *)
(*   tried          the remote operations the run attempted                   *)
(*   acts, wlog, failed, recreated   what the run did (observation only)      *)
(*   purges         the records the run removed from the store, each with     *)
(*                  whether its remote counterpart existed then (observation) *)

\* an exception nothing catches leaves sync()
Raise(s) == [s EXCEPT !.st = "raised"]

\* the run applied an action to a list or a task
Did(s, kind, a, b) == [s EXCEPT !.acts = @ \cup {<<kind, a, b>>}]

\* a remote operation was attempted and raised
Hit(s, point) == [s EXCEPT !.failed = @ \cup {point}, !.tried = @ \cup {point}]

\* a remote operation was attempted and returned
Pass(s, point) == [s EXCEPT !.tried = @ \cup {point}]

\* the run removed a list (task_uid "") or a task from the store
Purged(s, list_uid, task_uid) ==
    [s EXCEPT !.purges = @ \cup
        {<<list_uid, task_uid,
           IF task_uid = "" THEN VtodoCal(s.remote, list_uid)
           ELSE TodoIn(s.remote, list_uid, task_uid)>>}]

\* copy_remote_list with the new list stored as not yet synced
copy_remote_list_unsynced(s, calendar) ==
    LET ls == add_list(s.lists, calendar.name, calendar.id, FALSE)
        new_list == ls[Len(ls)]
    IN Did([s EXCEPT !.lists = ls, !.ui.lists_to_add = Append(@, new_list)],
           "add_local_list", calendar.id, "")

\* lines 334-338: a calendar unknown to the store becomes a synced local list,
\* queued in lists_to_add
copy_remote_list(s, calendar) ==
    LET ls == add_list(s.lists, calendar.name, calendar.id, TRUE)
        new_list == ls[Len(ls)]
    IN Did([s EXCEPT !.lists = ls, !.ui.lists_to_add = Append(@, new_list)],
           "add_local_list", calendar.id, "")

RECURSIVE add_local_lists_loop(_, _, _)
\* lines 332-338
add_local_lists_loop(s, user_lists_uids, j) ==
    IF j > Len(s.calendars) THEN s
    ELSE LET calendar == s.calendars[j]
         IN IF calendar.id \notin user_lists_uids
            THEN add_local_lists_loop(copy_remote_list(s, calendar),
                                      user_lists_uids, j + 1)
            ELSE add_local_lists_loop(s, user_lists_uids, j + 1)

\* __add_local_lists
add_local_lists(s) ==
    add_local_lists_loop(s, {s.lists[i].uid : i \in 1..Len(s.lists)}, 1)

\* __rename_remote_list marking the list synced after the push
rename_remote_list_marks_synced(s, cal, list, fail) ==
    IF <<"rename", cal.id>> \in fail
    THEN Raise(Hit(s, <<"rename", cal.id>>))
    ELSE Did([Pass(s, <<"rename", cal.id>>) EXCEPT
                       !.remote = SetDisplayName(@, cal.id, list.name),
                       !.lists = update_list_props(@, cal.id, {"synced"},
                                                   [synced |-> TRUE])],
             "rename_remote_list", list.uid, "")

\* __rename_remote_list: set_properties is not guarded, a failure leaves sync()
rename_remote_list(s, cal, list, fail) ==
    IF <<"rename", cal.id>> \in fail
    THEN Raise(Hit(s, <<"rename", cal.id>>))
    ELSE Did([Pass(s, <<"rename", cal.id>>) EXCEPT
                       !.remote = SetDisplayName(@, cal.id, list.name),
                       !.lists = update_list_props(@, cal.id, {"synced"},
                                                   [synced |-> FALSE])],
             "rename_remote_list", list.uid, "")

\* __rename_local_list without the entry in lists_to_update_name
rename_local_list_unqueued(s, cal, list) ==
    Did([s EXCEPT !.lists = update_list_props(@, cal.id, {"name", "synced"},
                                              [name |-> cal.name, synced |-> TRUE]),
                  !.ui.update_trash = TRUE],
        "rename_local_list", list.uid, "")

\* __rename_local_list
rename_local_list(s, cal, list) ==
    Did([s EXCEPT !.lists = update_list_props(@, cal.id, {"name", "synced"},
                                              [name |-> cal.name, synced |-> TRUE]),
                  !.ui.lists_to_update_name = Append(@, cal.id),
                  !.ui.update_trash = TRUE],
        "rename_local_list", list.uid, "")

\* __delete_local_list
delete_local_list(s, list) ==
    Did([Purged(s, list.uid, "") EXCEPT
                  !.lists = delete_list(@, list.uid),
                  !.tasks = delete_list_tasks(@, list.uid),
                  !.ui.lists_to_purge_uids = Append(@, list.uid),
                  !.ui.update_trash = TRUE,
                  !.ui.update_tags = TRUE],
        "delete_local_list", list.uid, "")

\* __delete_remote_list removing the local record before it calls cal.delete()
delete_remote_list_purge_first(s, list, fail) ==
    IF \A j \in 1..Len(s.calendars) : s.calendars[j].id # list.uid
    THEN s
    ELSE LET s1 == Did([Purged(s, list.uid, "") EXCEPT
                            !.lists = delete_list(@, list.uid),
                            !.tasks = delete_list_tasks(@, list.uid)],
                       "delete_remote_list", list.uid, "")
         IN IF <<"delete_cal", list.uid>> \in fail
            THEN Raise(Hit(s1, <<"delete_cal", list.uid>>))
            ELSE [Pass(s1, <<"delete_cal", list.uid>>) EXCEPT
                     !.remote = DeleteCalendar(@, list.uid)]

\* __delete_remote_list purging the local record without calling cal.delete()
delete_remote_list_local_only(s, list, fail) ==
    IF \A j \in 1..Len(s.calendars) : s.calendars[j].id # list.uid
    THEN s
    ELSE Did([Purged(s, list.uid, "") EXCEPT
                  !.lists = delete_list(@, list.uid),
                  !.tasks = delete_list_tasks(@, list.uid)],
             "delete_remote_list", list.uid, "")

\* __delete_remote_list: cal.delete() is not guarded; the local record goes only
\* after it returned
delete_remote_list(s, list, fail) ==
    IF \A j \in 1..Len(s.calendars) : s.calendars[j].id # list.uid
    THEN s
    ELSE IF <<"delete_cal", list.uid>> \in fail
         THEN Raise(Hit(s, <<"delete_cal", list.uid>>))
         ELSE LET s1 == [Pass(s, <<"delete_cal", list.uid>>) EXCEPT
                            !.remote = DeleteCalendar(@, list.uid)]
              IN Did([Purged(s1, list.uid, "") EXCEPT
                            !.lists = delete_list(@, list.uid),
                            !.tasks = delete_list_tasks(@, list.uid)],
                     "delete_remote_list", list.uid, "")

\* __create_local_list with the synced flag written inside the try block
create_local_list_flag_in_try(s, list, fail) ==
    LET refused == <<"make_calendar", list.uid>> \in fail \/ list.uid \in CalIds(s.remote)
    IN Did(IF refused
           THEN Hit(s, <<"make_calendar", list.uid>>)
           ELSE [Pass(s, <<"make_calendar", list.uid>>) EXCEPT
                          !.remote = MakeCalendar(@, list.uid, list.name),
                          !.lists = update_list_props(@, list.uid, {"synced"},
                                                      [synced |-> TRUE])],
           "create_local_list", list.uid, "")

\* __create_local_list: a failed make_calendar is logged, synced is set either way
create_local_list(s, list, fail) ==
    LET refused == <<"make_calendar", list.uid>> \in fail \/ list.uid \in CalIds(s.remote)
        s1 == IF refused
              THEN Hit(s, <<"make_calendar", list.uid>>)
              ELSE [Pass(s, <<"make_calendar", list.uid>>) EXCEPT
                       !.remote = MakeCalendar(@, list.uid, list.name)]
    IN Did([s1 EXCEPT !.lists = update_list_props(@, list.uid, {"synced"},
                                                  [synced |-> TRUE])],
           "create_local_list", list.uid, "")

RECURSIVE rename_loop(_, _, _, _)
\* lines 269-276: the inner loop over self.calendars
rename_loop(s, list, j, fail) ==
    IF j > Len(s.calendars) \/ s.st # "run" THEN s
    ELSE LET cal == s.calendars[j]
         IN IF cal.id = list.uid /\ cal.name # list.name /\ ~list.synced
            THEN rename_loop(rename_remote_list(s, cal, list, fail), list, j + 1, fail)
            ELSE IF cal.id = list.uid /\ cal.name # list.name /\ list.synced
                 THEN rename_loop(rename_local_list(s, cal, list), list, j + 1, fail)
                 ELSE rename_loop(s, list, j + 1, fail)

\* lines 278-292: the delete / create chain of one list; `cal` is the variable the
\* inner loop left behind, unbound when self.calendars is empty
list_chain(s, list, remote_lists_uids, fail) ==
    IF list.uid \notin remote_lists_uids /\ list.synced /\ ~list.deleted
    THEN IF Len(s.calendars) = 0 THEN Raise(s) ELSE delete_local_list(s, list)
    ELSE IF list.uid \in remote_lists_uids /\ list.deleted /\ list.synced
         THEN delete_remote_list(s, list, fail)
         ELSE IF list.uid \notin remote_lists_uids /\ ~list.synced /\ ~list.deleted
              THEN create_local_list(s, list, fail)
              ELSE s

RECURSIVE list_loop(_, _, _, _, _)
\* lines 267-292: the loop over UserData.get_lists_as_dicts()
list_loop(s, all_lists, remote_lists_uids, i, fail) ==
    IF i > Len(all_lists) \/ s.st # "run" THEN s
    ELSE LET list == all_lists[i]
             s1 == rename_loop(s, list, 1, fail)
             s2 == IF s1.st # "run" THEN s1
                   ELSE list_chain(s1, list, remote_lists_uids, fail)
         IN list_loop(s2, all_lists, remote_lists_uids, i + 1, fail)

----------------------------------------------------------------------------
(* sync(): task reconciliation *)

\* __get_task(calendar, uid): the first decoded to-do with this uid
get_task(s, calendar, task_uid) ==
    LET rts == get_tasks(CalById(s.remote, calendar.id))
    IN rts[CHOOSE i \in 1..Len(rts) :
              rts[i].uid = task_uid /\ \A j \in 1..(i - 1) : rts[j].uid # task_uid]

\* updated_props with the tags left out of the comparison
updated_props_without_tags(remote_task, task) ==
    {key \in TaskKeys : key \notin Bookkeeping \cup {"tags"} /\ remote_task[key] # task[key]}

\* lines 388-394: the attributes in which the remote copy differs from the local one
updated_props(remote_task, task) ==
    {key \in TaskKeys : key \notin Bookkeeping /\ remote_task[key] # task[key]}

\* __update_local_task writing the whole remote record once something differs
update_local_task_overwrite(s, calendar, task) ==
    LET remote_task == get_task(s, calendar, task.uid)
        props == updated_props(remote_task, task)
    IN IF props # {}
       THEN Did([s EXCEPT !.tasks = update_props(@, calendar.id, task.uid, TaskKeys,
                                                 remote_task),
                          !.wlog = @ \cup {<<calendar.id, task.uid, k>> : k \in TaskKeys},
                          !.ui.tasks_to_update = Append(@, task),
                          !.ui.update_tags = TRUE,
                          !.ui.update_trash = TRUE],
                "pull", calendar.id, task.uid)
       ELSE Did(s, "pull", calendar.id, task.uid)

\* __update_local_task (Pull)
update_local_task(s, calendar, task) ==
    LET remote_task == get_task(s, calendar, task.uid)
        props == updated_props(remote_task, task)
    IN IF props # {}
       THEN Did([s EXCEPT !.tasks = update_props(@, calendar.id, task.uid, props,
                                                 remote_task),
                          !.wlog = @ \cup {<<calendar.id, task.uid, k>> : k \in props},
                          !.ui.tasks_to_update = Append(@, task),
                          !.ui.update_tags = TRUE,
                          !.ui.update_trash = TRUE],
                "pull", calendar.id, task.uid)
       ELSE Did(s, "pull", calendar.id, task.uid)

\* __update_remote_task (Push): any failure is caught and logged
update_remote_task(s, calendar, task, fail) ==
    IF <<"save", task.uid>> \in fail
    THEN Did(Hit(s, <<"save", task.uid>>), "push", calendar.id, task.uid)
    ELSE LET cal == CalById(s.remote, calendar.id)
             todos == [i \in 1..Len(cal.todos) |->
                          IF cal.todos[i].uid = task.uid
                          THEN PushedTodo(cal.todos[i], task)
                          ELSE cal.todos[i]]
         IN Did([Pass(s, <<"save", task.uid>>) EXCEPT
                          !.remote = WithTodos(@, calendar.id, todos),
                          !.tasks = update_props(@, calendar.id, task.uid, {"synced"},
                                                 [synced |-> TRUE]),
                          !.wlog = @ \cup {<<calendar.id, task.uid, "synced">>}],
                "push", calendar.id, task.uid)

\* __create_remote_task (Create-remote): any failure is caught and logged
create_remote_task(s, calendar, task, fail) ==
    IF <<"save", task.uid>> \in fail
    THEN Did(Hit(s, <<"save", task.uid>>), "create_remote", calendar.id, task.uid)
    ELSE LET cal == CalById(s.remote, calendar.id)
         IN Did([Pass(s, <<"save", task.uid>>) EXCEPT
                          !.remote = WithTodos(@, calendar.id,
                                               Append(cal.todos, CreatedTodo(task))),
                          !.tasks = update_props(@, calendar.id, task.uid, {"synced"},
                                                 [synced |-> TRUE]),
                          !.wlog = @ \cup {<<calendar.id, task.uid, "synced">>}],
                "create_remote", calendar.id, task.uid)

\* __delete_local_task without the entry in tasks_to_purge
delete_local_task_unqueued(s, calendar, task) ==
    Did([Purged(s, calendar.id, task.uid) EXCEPT
                  !.tasks = delete_task(@, calendar.id, task.uid),
                  !.ui.update_trash = TRUE,
                  !.ui.update_tags = TRUE],
        "delete_local", calendar.id, task.uid)

\* __delete_local_task (Delete-local)
delete_local_task(s, calendar, task) ==
    Did([Purged(s, calendar.id, task.uid) EXCEPT
                  !.tasks = delete_task(@, calendar.id, task.uid),
                  !.ui.tasks_to_purge = Append(@, task),
                  !.ui.update_trash = TRUE,
                  !.ui.update_tags = TRUE],
        "delete_local", calendar.id, task.uid)

\* __delete_remote_task (Delete-remote): any failure is caught and logged
delete_remote_task(s, calendar, task, fail) ==
    IF <<"delete_todo", task.uid>> \in fail
    THEN Did(Hit(s, <<"delete_todo", task.uid>>), "delete_remote", calendar.id, task.uid)
    ELSE LET cal == CalById(s.remote, calendar.id)
         IN Did([Pass(s, <<"delete_todo", task.uid>>) EXCEPT
                          !.remote = WithTodos(@, calendar.id,
                               SelectSeq(cal.todos, LAMBDA t : t.uid # task.uid))],
                "delete_remote", calendar.id, task.uid)

\* __create_local_task (Pull-create)
create_local_task(s, calendar, task) ==
    LET ts == add_task(s.tasks, task)
        new_task == ts[Len(ts)]
        tomb == \E i \in 1..Len(s.tasks) : s.tasks[i].uid = task.uid /\ s.tasks[i].deleted
    IN Did([s EXCEPT !.tasks = ts,
                     !.ui.tasks_to_add = Append(@, new_task),
                     !.recreated = @ \cup (IF tomb THEN {task.uid} ELSE {})],
           "pull_create", calendar.id, task.uid)

\* lines 306-319: the action chosen for one local task, first match wins
task_chain(s, calendar, task, remote_ids, fail) ==
    IF task.uid \in remote_ids /\ task.synced
    THEN update_local_task(s, calendar, task)
    ELSE IF task.uid \in remote_ids /\ ~task.synced
    THEN update_remote_task(s, calendar, task, fail)
    ELSE IF task.uid \notin remote_ids /\ ~task.synced
    THEN create_remote_task(s, calendar, task, fail)
    ELSE IF task.uid \notin remote_ids /\ task.synced
    THEN delete_local_task(s, calendar, task)
    ELSE IF task.uid \in remote_ids /\ task.deleted
    THEN delete_remote_task(s, calendar, task, fail)
    ELSE s

RECURSIVE local_tasks_loop(_, _, _, _, _, _)
\* lines 305-319
local_tasks_loop(s, calendar, local_tasks, remote_ids, k, fail) ==
    IF k > Len(local_tasks) THEN s
    ELSE local_tasks_loop(task_chain(s, calendar, local_tasks[k], remote_ids, fail),
                          calendar, local_tasks, remote_ids, k + 1, fail)

RECURSIVE remote_tasks_loop(_, _, _, _, _, _)
\* lines 322-324
remote_tasks_loop(s, calendar, remote_tasks, local_ids, deleted_uids, k) ==
    IF k > Len(remote_tasks) THEN s
    ELSE LET task == remote_tasks[k]
         IN remote_tasks_loop(
                IF task.uid \notin local_ids /\ task.uid \notin deleted_uids
                THEN create_local_task(s, calendar, task)
                ELSE s,
                calendar, remote_tasks, local_ids, deleted_uids, k + 1)

\* deleted_uids taken from the tasks of the calendar's own list only
deleted_uids_of_list(s, calendar) ==
    {s.tasks[i].uid : i \in {j \in 1..Len(s.tasks) :
                                s.tasks[j].deleted /\ s.tasks[j].list_uid = calendar.id}}

\* line 303: the uids of the tombstones of every list
deleted_uids(s, calendar) ==
    {s.tasks[i].uid : i \in {j \in 1..Len(s.tasks) : s.tasks[j].deleted}}

\* lines 298-324: one calendar of the second loop; __get_tasks is not guarded
calendar_step(s, calendar, fail) ==
    IF <<"todos", calendar.id>> \in fail
    THEN Raise(Hit(s, <<"todos", calendar.id>>))
    ELSE LET local_tasks == get_tasks_as_dicts(s.tasks, calendar.id)
             local_ids == Uids(local_tasks)
             remote_tasks == get_tasks(CalById(s.remote, calendar.id))
             remote_ids == Uids(remote_tasks)
             tombstones == deleted_uids(s, calendar)
             s1 == local_tasks_loop(Pass(s, <<"todos", calendar.id>>), calendar,
                                    local_tasks, remote_ids, 1, fail)
         IN remote_tasks_loop(s1, calendar, remote_tasks, local_ids, tombstones, 1)

RECURSIVE calendars_loop(_, _, _)
\* lines 297-324
calendars_loop(s, j, fail) ==
    IF j > Len(s.calendars) \/ s.st # "run" THEN s
    ELSE calendars_loop(calendar_step(s, s.calendars[j], fail), j + 1, fail)

\* sync() going on with the calendars of the first probe when the second fails
sync_second_probe_unchecked(s0, connected, fail) ==
    IF ~connected \/ <<"probe1", "">> \in fail
    THEN [(IF connected THEN Hit(s0, <<"probe1", "">>) ELSE s0) EXCEPT !.st = "probe1"]
    ELSE LET s1 == [Pass(s0, <<"probe1", "">>) EXCEPT
                              !.calendars = update_calendars(s0.remote),
                              !.ui = UpdateUIArgs]
             s2 == add_local_lists(s1)
             remote_lists_uids == {s2.calendars[j].id : j \in 1..Len(s2.calendars)}
             s3 == list_loop(s2, s2.lists, remote_lists_uids, 1, fail)
         IN IF s3.st # "run" THEN s3
            ELSE LET s4 == IF <<"probe2", "">> \in fail
                           THEN [Hit(s3, <<"probe2", "">>) EXCEPT
                                    !.calendars = SelectSeq(@, LAMBDA c : c.id \in CalIds(s3.remote))]
                           ELSE [Pass(s3, <<"probe2", "">>) EXCEPT
                                    !.calendars = update_calendars(s3.remote)]
                     s5 == calendars_loop(s4, 1, fail)
                 IN IF s5.st # "run" THEN s5 ELSE [s5 EXCEPT !.st = "done"]

\* sync() going on with the calendars it already held when the first probe fails
sync_first_probe_unchecked(s0, connected, fail) ==
    LET s1 == IF ~connected \/ <<"probe1", "">> \in fail
              THEN [(IF connected THEN Hit(s0, <<"probe1", "">>) ELSE s0) EXCEPT
                       !.ui = UpdateUIArgs]
              ELSE [Pass(s0, <<"probe1", "">>) EXCEPT
                       !.calendars = update_calendars(s0.remote),
                       !.ui = UpdateUIArgs]
        s2 == add_local_lists(s1)
        remote_lists_uids == {s2.calendars[j].id : j \in 1..Len(s2.calendars)}
        s3 == list_loop(s2, s2.lists, remote_lists_uids, 1, fail)
    IN IF s3.st # "run" THEN s3
       ELSE IF <<"probe2", "">> \in fail
       THEN [Hit(s3, <<"probe2", "">>) EXCEPT !.st = "probe2"]
       ELSE LET s4 == [Pass(s3, <<"probe2", "">>) EXCEPT
                              !.calendars = update_calendars(s3.remote)]
                s5 == calendars_loop(s4, 1, fail)
            IN IF s5.st # "run" THEN s5 ELSE [s5 EXCEPT !.st = "done"]

\* sync(), lines 255-326, from the provider's state s0 under the failures `fail`;
\* connected says whether self.principal exists
sync(s0, connected, fail) ==
    IF ~connected \/ <<"probe1", "">> \in fail
    THEN [(IF connected THEN Hit(s0, <<"probe1", "">>) ELSE s0) EXCEPT !.st = "probe1"]
    ELSE LET s1 == [Pass(s0, <<"probe1", "">>) EXCEPT
                              !.calendars = update_calendars(s0.remote),
                              !.ui = UpdateUIArgs]
             s2 == add_local_lists(s1)
             remote_lists_uids == {s2.calendars[j].id : j \in 1..Len(s2.calendars)}
             s3 == list_loop(s2, s2.lists, remote_lists_uids, 1, fail)
         IN IF s3.st # "run" THEN s3
            ELSE IF <<"probe2", "">> \in fail
            THEN [Hit(s3, <<"probe2", "">>) EXCEPT !.st = "probe2"]
            ELSE LET s4 == [Pass(s3, <<"probe2", "">>) EXCEPT
                                   !.calendars = update_calendars(s3.remote)]
                     s5 == calendars_loop(s4, 1, fail)
                 IN IF s5.st # "run" THEN s5 ELSE [s5 EXCEPT !.st = "done"]

----------------------------------------------------------------------------
(* State *)

VARIABLES
    lists,           \* UserData: the task lists
    tasks,           \* UserData: the tasks
    remote,          \* the server: its calendars and their to-dos
    principal,       \* whether self.principal was obtained by _connect
    can_sync,        \* self.can_sync
    has_calendars,   \* whether self.calendars is a list (FALSE: still None)
    calendars,       \* self.calendars when it is a list
    update_ui_args,  \* self.update_ui_args
    idle,            \* __finish_sync callbacks queued on the main loop
    sidebar,         \* uids of the task-list rows of the sidebar
    ui_tasks,        \* <<list_uid, uid>> of the task widgets
    runs,            \* sync() calls so far
    refreshes,       \* __finish_sync calls scheduled so far
    outcome,         \* how the last sync() ended
    prev_outcome,    \* how the one before ended
    pre,             \* store and server as the last sync() found them
    acts,            \* what the last sync() did
    wlog,            \* the task fields the last sync() wrote
    failed,          \* the remote operations that failed in the last sync()
    prev_failed,     \* the same for the run before
    recreated,       \* uids pull-created while a tombstone of the uid existed
    purges,          \* what the last sync() removed from the store
    toasts,          \* toasts shown in the main window so far
    ui_log,          \* the steps of the last __finish_sync, in the order they ran
    scheduled        \* the change-sets of the runs whose __finish_sync is still queued

vars == <<lists, tasks, remote, principal, can_sync, has_calendars, calendars,
          update_ui_args, idle, sidebar, ui_tasks, runs, refreshes, outcome,
          prev_outcome, pre, acts, wlog, failed, prev_failed, recreated, purges,
          toasts, ui_log, scheduled>>

hist == <<runs, refreshes, outcome, prev_outcome, pre, acts, wlog, failed, prev_failed,
          recreated, purges>>

----------------------------------------------------------------------------
(* Initial states *)

Absent == [present |-> FALSE, name |-> "a", synced |-> FALSE, deleted |-> FALSE,
           vtodo |-> FALSE]

LocalListOpts ==
    {Absent} \cup [present : {TRUE}, name : Names, synced : BOOLEAN,
                   deleted : BOOLEAN, vtodo : {FALSE}]

RemoteCalOpts ==
    {Absent} \cup [present : {TRUE}, name : {"a"}, synced : {FALSE},
                   deleted : {FALSE}, vtodo : BOOLEAN]

\* attribute values of a task as the user left it
LocalAttrs ==
    {[priority |-> 1, tags |-> <<>>,    parent |-> "", changed_at |-> "c"],
     [priority |-> 9, tags |-> <<"t">>, parent |-> "", changed_at |-> "c"]}

\* attribute values of a to-do as another client left it
RemoteAttrs ==
    {[priority |-> 1, tags |-> <<>>,    parent |-> "",   changed_at |-> "c"],
     [priority |-> 9, tags |-> <<>>,    parent |-> "",   changed_at |-> "c"],
     [priority |-> 9, tags |-> <<"t">>, parent |-> "T1", changed_at |-> "c"]}

\* a task the user worked on: a tombstone was in the trash first
LocalTask(uid, list_uid, a, synced, deleted) ==
    [TaskData(uid, list_uid, a.priority, a.tags, a.parent, a.changed_at)
        EXCEPT !.synced = synced, !.deleted = deleted, !.trash = deleted,
               !.expanded = TRUE, !.toolbar_shown = TRUE, !.notified = TRUE]

\* a to-do written by a full client: every property present
RemoteTodo(uid, a) ==
    Todo(uid, {"priority", "categories", "related-to", "last-modified"},
         a.priority, a.tags, IF a.parent = uid THEN "" ELSE a.parent, a.changed_at)

NoTask == [present |-> FALSE, list_uid |-> "L1", synced |-> FALSE, deleted |-> FALSE,
           a |-> CHOOSE a \in LocalAttrs : a.priority = 1]

LocalTaskOpts(lus, attrs) ==
    {NoTask} \cup [present : {TRUE}, list_uid : lus, synced : BOOLEAN,
                   deleted : BOOLEAN, a : attrs]

RemoteTodoOpts(cids, attrs) ==
    {NoTask} \cup [present : {TRUE}, list_uid : cids, synced : {FALSE},
                   deleted : {FALSE}, a : attrs]

RECURSIVE BuildLists(_, _)
BuildLists(f, i) ==
    IF i > Len(ListOrder) THEN <<>>
    ELSE LET u == ListOrder[i]
         IN (IF f[u].present
             THEN <<[uid |-> u, name |-> f[u].name, synced |-> f[u].synced,
                     deleted |-> f[u].deleted]>>
             ELSE <<>>) \o BuildLists(f, i + 1)

RECURSIVE BuildTasks(_, _)
BuildTasks(g, i) ==
    IF i > Len(TaskOrder) THEN <<>>
    ELSE LET u == TaskOrder[i]
         IN (IF g[u].present
             THEN <<LocalTask(u, g[u].list_uid, g[u].a, g[u].synced, g[u].deleted)>>
             ELSE <<>>) \o BuildTasks(g, i + 1)

RECURSIVE BuildTodos(_, _, _)
BuildTodos(h, cid, i) ==
    IF i > Len(TaskOrder) THEN <<>>
    ELSE LET u == TaskOrder[i]
         IN (IF h[u].present /\ h[u].list_uid = cid
             THEN <<RemoteTodo(u, h[u].a)>>
             ELSE <<>>) \o BuildTodos(h, cid, i + 1)

RECURSIVE BuildRemote(_, _, _)
BuildRemote(f, h, i) ==
    IF i > Len(ListOrder) THEN <<>>
    ELSE LET u == ListOrder[i]
         IN (IF f[u].present
             THEN <<[id |-> u, name |-> f[u].name, vtodo |-> f[u].vtodo,
                     todos |-> BuildTodos(h, u, 1)]>>
             ELSE <<>>) \o BuildRemote(f, h, i + 1)

\* Sidebar.load_task_lists: one row per list that is not a tombstone
LoadedRows(ls) ==
    LET shown == SelectSeq(ls, LAMBDA l : ~l.deleted)
    IN [i \in 1..Len(shown) |-> shown[i].uid]

\* the task widgets of the lists shown
LoadedTasks(ls, ts) ==
    {<<ts[i].list_uid, ts[i].uid>> :
        i \in {j \in 1..Len(ts) : ~ts[j].deleted /\
                  \E n \in 1..Len(ls) : ls[n].uid = ts[j].list_uid /\ ~ls[n].deleted}}

\* lines 32-33 and 47-62: the class attributes, left as they are when a
\* credential is missing; the toast of line 57
NoSession ==
    [principal |-> FALSE, can_sync |-> FALSE, has_calendars |-> FALSE,
     calendars |-> <<>>, toasts |-> 1]

\* lines 71-99: _connect; principal_ok and calendars_ok tell whether
\* client.principal() and principal.calendars() answer. Line 85 sets can_sync
\* before line 86 enumerates the calendars
connect(rem, principal_ok, calendars_ok) ==
    IF ~principal_ok THEN NoSession
    ELSE IF ~calendars_ok
         THEN [NoSession EXCEPT !.principal = TRUE, !.can_sync = TRUE]
         ELSE [principal |-> TRUE, can_sync |-> TRUE, has_calendars |-> TRUE,
               calendars |-> update_calendars(rem), toasts |-> 0]

\* lines 35-45: __init__
new_provider(rem, credentials_ok, principal_ok, calendars_ok) ==
    IF ~credentials_ok THEN NoSession
    ELSE connect(rem, principal_ok, calendars_ok)

\* the application once the provider p is constructed, over a given store and
\* server and with the given sidebar rows
Built(ls, ts, rem, p, rows) ==
    /\ lists = ls
    /\ tasks = ts
    /\ remote = rem
    /\ principal = p.principal
    /\ can_sync = p.can_sync
    /\ has_calendars = p.has_calendars
    /\ calendars = p.calendars
    /\ update_ui_args = UpdateUIArgs
    /\ idle = 0
    /\ sidebar = rows
    /\ ui_tasks = LoadedTasks(ls, ts)
    /\ runs = 0
    /\ refreshes = 0
    /\ outcome = "none"
    /\ prev_outcome = "none"
    /\ pre = [lists |-> ls, tasks |-> ts, remote |-> rem]
    /\ acts = {}
    /\ wlog = {}
    /\ failed = {}
    /\ prev_failed = {}
    /\ recreated = {}
    /\ purges = {}
    /\ toasts = p.toasts
    /\ ui_log = <<>>
    /\ scheduled = <<>>

\* the provider right after construction, the window loaded from the store
Constructed(ls, ts, rem, p) ==
    Built(ls, ts, rem, p, LoadedRows(ls))

\* every combination of two lists and two calendars; a world with the single
\* list L1 also has the task T1, locally, remotely or both
Init ==
    \E f \in [ListUids -> LocalListOpts], c \in [ListUids -> RemoteCalOpts],
       credentials_ok \in BOOLEAN, principal_ok \in BOOLEAN, calendars_ok \in BOOLEAN :
      \E g \in [TaskUids -> LocalTaskOpts({u \in {"L1"} : f[u].present},
                                          {a \in LocalAttrs : a.priority = 1})],
         h \in [TaskUids -> RemoteTodoOpts({u \in {"L1"} : c[u].present /\ c[u].vtodo},
                                           {a \in RemoteAttrs : a.priority = 9 /\ a.tags = <<>>})] :
        /\ ~g["T2"].present /\ ~h["T2"].present
        /\ ~g["T1"].deleted
        /\ (g["T1"].present \/ h["T1"].present)
              => (credentials_ok /\ principal_ok /\ calendars_ok
                    /\ ~f["L2"].present /\ ~c["L2"].present)
        /\ Constructed(BuildLists(f, 1), BuildTasks(g, 1), BuildRemote(c, h, 1),
                       new_provider(BuildRemote(c, h, 1), credentials_ok, principal_ok,
                                    calendars_ok))

\* what the second task may be: a task of L1 with the plain attribute values
SecondLocalOpts ==
    LocalTaskOpts({"L1"}, {a \in LocalAttrs : a.priority = 1}) \ {o \in LocalTaskOpts({"L1"}, LocalAttrs) : o.deleted}

\* what the second to-do may be: a to-do of L1, plain or a child of T1
SecondRemoteOpts ==
    RemoteTodoOpts({"L1"}, {a \in RemoteAttrs : a.priority = 1 \/ a.parent # ""})

\* two synced lists with their calendars, every combination of the task T1 and
\* of its to-do over both lists, and a second task in L1
InitTasks ==
    \E g \in [TaskUids -> LocalTaskOpts(ListUids, LocalAttrs)],
       h \in [TaskUids -> RemoteTodoOpts(ListUids, RemoteAttrs)] :
        LET f == [u \in ListUids |-> [present |-> TRUE, name |-> "a", synced |-> TRUE,
                                      deleted |-> FALSE, vtodo |-> TRUE]]
        IN /\ g["T2"] \in SecondLocalOpts
           /\ h["T2"] \in SecondRemoteOpts
           /\ Constructed(BuildLists(f, 1), BuildTasks(g, 1), BuildRemote(f, h, 1),
                          new_provider(BuildRemote(f, h, 1), TRUE, TRUE, TRUE))

----------------------------------------------------------------------------
(* Actions *)

\* the provider, the store and the server as a call of sync() finds them
Entry ==
    [lists |-> lists, tasks |-> tasks, remote |-> remote, calendars |-> calendars,
     ui |-> update_ui_args, st |-> "run", tried |-> {}, acts |-> {}, wlog |-> {},
     failed |-> {}, recreated |-> {}, purges |-> {}]

RECURSIVE FailSets(_, _, _)
\* the failures a run from s0 can meet, at most n of them: each one more hits an
\* operation that the run attempts under the failures before it (the failure of an
\* operation the run never attempts changes nothing)
FailSets(s0, connected, n) ==
    IF n = 0 THEN {{}}
    ELSE LET fewer == FailSets(s0, connected, n - 1)
         IN fewer \cup UNION {{F \cup {p} : p \in (sync(s0, connected, F).tried \ F)
                                                  \cap FailPoints} :
                                F \in fewer}

\* one call of sync(); a run that reaches line 326 queues __finish_sync
Sync ==
    /\ runs < MaxSyncs
    /\ \E fail \in FailSets(Entry, principal, MaxFails) :
         \E r \in {sync(Entry, principal, fail)} :
            /\ lists' = r.lists
            /\ tasks' = r.tasks
            /\ remote' = r.remote
            /\ calendars' = r.calendars
            /\ update_ui_args' = r.ui
            /\ idle' = IF r.st = "done" THEN idle + 1 ELSE idle
            /\ refreshes' = IF r.st = "done" THEN refreshes + 1 ELSE refreshes
            /\ runs' = runs + 1
            /\ outcome' = r.st
            /\ prev_outcome' = outcome
            /\ pre' = [lists |-> lists, tasks |-> tasks, remote |-> remote]
            /\ acts' = r.acts
            /\ wlog' = r.wlog
            /\ failed' = r.failed
            /\ prev_failed' = failed
            /\ recreated' = recreated \cup r.recreated
            /\ purges' = r.purges
            /\ has_calendars' = (has_calendars \/ r.st # "probe1")
            /\ scheduled' = IF r.st = "done" THEN Append(scheduled, r.ui) ELSE scheduled
    /\ UNCHANGED <<principal, can_sync, sidebar, ui_tasks, toasts, ui_log>>

\* lines 208-216: rows of purged lists go, rows of added lists are appended
FinishedRows(rows, ui) ==
    SelectSeq(rows, LAMBDA u : u \notin Range(ui.lists_to_purge_uids))
        \o [i \in 1..Len(ui.lists_to_add) |-> ui.lists_to_add[i].uid]

\* lines 229-238: the tasks __finish_sync hands to their task list
RECURSIVE AddedTasks(_, _, _, _)
AddedTasks(to_add, lists_to_add_uids, parents_added_uids, k) ==
    IF k > Len(to_add) THEN {}
    ELSE LET task == to_add[k]
         IN IF task.list_uid \notin lists_to_add_uids /\ task.parent \notin parents_added_uids
            THEN {<<task.list_uid, task.uid>>}
                     \cup AddedTasks(to_add, lists_to_add_uids,
                                     parents_added_uids \cup {task.uid}, k + 1)
            ELSE AddedTasks(to_add, lists_to_add_uids, parents_added_uids, k + 1)

\* lines 208-238: the task widgets after the refresh; a list added by the run
\* shows the tasks the store holds for it
FinishedTasks(widgets, ui, ls, ts) ==
    LET purged == Range(ui.lists_to_purge_uids)
        added == {ui.lists_to_add[i].uid : i \in 1..Len(ui.lists_to_add)}
        gone == {<<ui.tasks_to_purge[i].list_uid, ui.tasks_to_purge[i].uid>> :
                    i \in 1..Len(ui.tasks_to_purge)}
    IN ((({w \in widgets : w[1] \notin purged}
            \cup {w \in LoadedTasks(ls, ts) : w[1] \in added}) \ gone)
          \cup AddedTasks(ui.tasks_to_add, added, {}, 1))

RECURSIVE AddTaskStepsAll(_, _, _, _)
\* the add loop without the test on parents_added_uids
AddTaskStepsAll(to_add, lists_to_add_uids, parents_added_uids, k) ==
    IF k > Len(to_add) THEN <<>>
    ELSE LET task == to_add[k]
         IN IF task.list_uid \notin lists_to_add_uids
            THEN <<<<"add_task", task.uid>>>>
                     \o AddTaskStepsAll(to_add, lists_to_add_uids, parents_added_uids, k + 1)
            ELSE AddTaskStepsAll(to_add, lists_to_add_uids, parents_added_uids, k + 1)

RECURSIVE AddTaskSteps(_, _, _, _)
\* lines 234-238 as the sequence of add_task calls
AddTaskSteps(to_add, lists_to_add_uids, parents_added_uids, k) ==
    IF k > Len(to_add) THEN <<>>
    ELSE LET task == to_add[k]
         IN IF task.list_uid \notin lists_to_add_uids /\ task.parent \notin parents_added_uids
            THEN <<<<"add_task", task.uid>>>>
                     \o AddTaskSteps(to_add, lists_to_add_uids,
                                     parents_added_uids \cup {task.uid}, k + 1)
            ELSE AddTaskSteps(to_add, lists_to_add_uids, parents_added_uids, k + 1)

\* the two list loops of __finish_sync swapped: lists added before lists purged
FinishStepsAddFirst(rows, ui) ==
    [i \in 1..Len(ui.lists_to_add) |-> <<"add_list", ui.lists_to_add[i].uid>>]
    \o LET gone == SelectSeq(rows, LAMBDA u : u \in Range(ui.lists_to_purge_uids))
       IN [i \in 1..Len(gone) |-> <<"purge_list", gone[i]>>]
    \o [i \in 1..Len(ui.lists_to_update_name) |->
           <<"rename_list", ui.lists_to_update_name[i]>>]
    \o [i \in 1..Len(ui.tasks_to_purge) |-> <<"purge_task", ui.tasks_to_purge[i].uid>>]
    \o AddTaskSteps(ui.tasks_to_add,
                    {ui.lists_to_add[i].uid : i \in 1..Len(ui.lists_to_add)}, {}, 1)
    \o [i \in 1..Len(ui.tasks_to_update) |-> <<"update_task", ui.tasks_to_update[i].uid>>]
    \o (IF ui.update_tags THEN <<<<"update_tags", "">>>> ELSE <<>>)
    \o (IF ui.update_trash THEN <<<<"update_trash", "">>>> ELSE <<>>)

\* lines 208-253: the widget calls of __finish_sync in the order it makes them
FinishSteps(rows, ui) ==
    LET gone == SelectSeq(rows, LAMBDA u : u \in Range(ui.lists_to_purge_uids))
    IN [i \in 1..Len(gone) |-> <<"purge_list", gone[i]>>]
    \o [i \in 1..Len(ui.lists_to_add) |-> <<"add_list", ui.lists_to_add[i].uid>>]
    \o [i \in 1..Len(ui.lists_to_update_name) |->
           <<"rename_list", ui.lists_to_update_name[i]>>]
    \o [i \in 1..Len(ui.tasks_to_purge) |-> <<"purge_task", ui.tasks_to_purge[i].uid>>]
    \o AddTaskSteps(ui.tasks_to_add,
                    {ui.lists_to_add[i].uid : i \in 1..Len(ui.lists_to_add)}, {}, 1)
    \o [i \in 1..Len(ui.tasks_to_update) |-> <<"update_task", ui.tasks_to_update[i].uid>>]
    \o (IF ui.update_tags THEN <<<<"update_tags", "">>>> ELSE <<>>)
    \o (IF ui.update_trash THEN <<<<"update_trash", "">>>> ELSE <<>>)

\* __finish_sync, run by the main loop: it reads self.update_ui_args as it is then
FinishSync ==
    /\ idle > 0
    /\ idle' = idle - 1
    /\ sidebar' = FinishedRows(sidebar, update_ui_args)
    /\ ui_tasks' = FinishedTasks(ui_tasks, update_ui_args, lists, tasks)
    /\ ui_log' = FinishSteps(sidebar, update_ui_args)
    /\ scheduled' = Tail(scheduled)
    /\ UNCHANGED <<lists, tasks, remote, principal, can_sync, has_calendars, calendars,
                   update_ui_args, toasts>>
    /\ UNCHANGED hist

Next == Sync \/ FinishSync

Spec == Init /\ [][Next]_vars

SpecTasks == InitTasks /\ [][Next]_vars

----------------------------------------------------------------------------
(* The sidebar on its own *)

\* sidebar.py lines 265-278: load_task_lists appends a row for every list of the
\* store with deleted = false
load_task_lists(rows, ls) ==
    rows \o LoadedRows(ls)

\* sidebar.py lines 280-293: update_task_lists removes the rows whose uid the
\* store does not hold, then appends a row for every list of the store that has
\* none, whatever its deleted flag
update_task_lists(rows, ls) ==
    LET uids == {ls[i].uid : i \in 1..Len(ls)}
        kept == SelectSeq(rows, LAMBDA u : u \in uids)
        lists_uids == Range(kept)
        missing == SelectSeq(ls, LAMBDA lst : lst.uid \notin lists_uids)
    IN kept \o [i \in 1..Len(missing) |-> missing[i].uid]

\* the uids a row may carry: those of the lists and one the store never holds
RowUids == ListUids \cup {"L9"}

\* the sidebars of at most MaxRows rows, no uid twice
SidebarRows ==
    {rows \in UNION {[1..n -> RowUids] : n \in 0..MaxRows} :
        \A i, j \in 1..Len(rows) : rows[i] = rows[j] => i = j}

\* any store of two lists under any sidebar, no provider session
InitSidebar ==
    \E f \in [ListUids -> LocalListOpts], rows \in SidebarRows :
        Built(BuildLists(f, 1), <<>>, <<>>, NoSession, rows)

\* the window loads the lists once, into the sidebar it has just built
LoadTaskLists ==
    /\ sidebar = <<>>
    /\ sidebar' = load_task_lists(sidebar, lists)
    /\ UNCHANGED <<lists, tasks, remote, principal, can_sync, has_calendars, calendars,
                   update_ui_args, idle, ui_tasks, toasts, ui_log, scheduled>>
    /\ UNCHANGED hist

\* Sidebar.update_ui and every other caller of update_task_lists
UpdateTaskLists ==
    /\ sidebar' = update_task_lists(sidebar, lists)
    /\ UNCHANGED <<lists, tasks, remote, principal, can_sync, has_calendars, calendars,
                   update_ui_args, idle, ui_tasks, toasts, ui_log, scheduled>>
    /\ UNCHANGED hist

NextSidebar == LoadTaskLists \/ UpdateTaskLists

SpecSidebar == InitSidebar /\ [][NextSidebar]_vars

----------------------------------------------------------------------------
(* Claims *)

\* the last two runs both reached the end of sync() and no remote operation failed
TwoCleanRuns ==
    /\ runs >= 2
    /\ outcome = "done" /\ prev_outcome = "done"
    /\ failed = {} /\ prev_failed = {}

\* C1: idempotence.  When sync() has run twice in a row with nothing changed
\* between the two runs, the change-set built by the second run is empty: no
\* list or task to add, rename, update or purge, and both dirty flags false.
C1_SecondRunEmpty == TwoCleanRuns => update_ui_args = UpdateUIArgs

\* the store holds the task (list_uid, uid)
TaskIn(ts, list_uid, uid) ==
    \E i \in 1..Len(ts) : ts[i].list_uid = list_uid /\ ts[i].uid = uid

\* the task (list_uid, uid) of the store
TaskOf(ts, list_uid, uid) ==
    ts[CHOOSE i \in 1..Len(ts) : ts[i].list_uid = list_uid /\ ts[i].uid = uid]

\* the store holds a tombstone with this uid, in whatever list
Tombstone(ts, uid) == \E i \in 1..Len(ts) : ts[i].uid = uid /\ ts[i].deleted

\* the list record with this uid
ListOf(ls, uid) == ls[CHOOSE i \in 1..Len(ls) : ls[i].uid = uid]

\* the remote copy of a task as the last run found it, decoded
RemoteCopy(t) ==
    LET cal == CalById(pre.remote, t.list_uid)
    IN DecodeTodo(cal.todos[CHOOSE k \in 1..Len(cal.todos) : cal.todos[k].uid = t.uid],
                  t.list_uid)

\* the syncable attributes in which two task records differ
Differing(r, t) == {k \in TaskKeys \ Bookkeeping : r[k] # t[k]}

\* the task is queued in a sequence of the change-set
Queued(q, t) == \E i \in 1..Len(q) : q[i].list_uid = t.list_uid /\ q[i].uid = t.uid

\* a task the last run met in the task phase with its uid on the remote calendar
MetOnRemote(t) ==
    /\ VtodoCal(remote, t.list_uid)
    /\ TodoIn(pre.remote, t.list_uid, t.uid)

\* a task the last run met in the task phase with its uid absent from the calendar
MetAbsent(t) ==
    /\ VtodoCal(remote, t.list_uid)
    /\ ~TodoIn(pre.remote, t.list_uid, t.uid)

C3_TombstoneDeletesRemote ==
    (outcome = "done" /\ failed = {}) =>
        \A i \in 1..Len(pre.tasks) :
            (pre.tasks[i].deleted /\ MetOnRemote(pre.tasks[i]))
                => ~TodoIn(remote, pre.tasks[i].list_uid, pre.tasks[i].uid)

\* a list that sync() has to create on the server
NewLocalList(l) == ~l.synced /\ ~l.deleted /\ l.uid \notin CalIds(pre.remote)

\* C4: new local list creation.  For a local list with synced=false and
\* deleted=false whose uid matches no remote calendar, a run that reaches its end
\* attempts the creation, and after a run in which the creation succeeded a
\* task-capable calendar with that uid and the local name exists and the local
\* list has synced=true.
C4_NewListCreated ==
    \A i \in 1..Len(pre.lists) :
        LET l == pre.lists[i]
        IN NewLocalList(l) =>
            /\ outcome = "done" => <<"create_local_list", l.uid, "">> \in acts
            /\ (<<"create_local_list", l.uid, "">> \in acts
                  /\ <<"make_calendar", l.uid>> \notin failed)
                => /\ \E j \in 1..Len(remote) :
                        remote[j].id = l.uid /\ remote[j].vtodo /\ remote[j].name = l.name
                   /\ \E j \in 1..Len(lists) :
                        lists[j].uid = l.uid /\ lists[j].synced /\ lists[j].name = l.name

\* a completed run created the calendar of a new local list
C4_Witness ==
    /\ outcome = "done"
    /\ \E i \in 1..Len(pre.lists) :
          /\ NewLocalList(pre.lists[i])
          /\ <<"create_local_list", pre.lists[i].uid, "">> \in acts
          /\ <<"make_calendar", pre.lists[i].uid>> \notin failed
          /\ VtodoCal(remote, pre.lists[i].uid)

\* C5 as stated: for every local list with synced=false and no remote calendar
\* of the same uid, after one sync() the list's synced flag is true, whether the
\* calendar creation succeeded or failed.
C5_UnsyncedListSynced ==
    outcome = "done" =>
        \A i \in 1..Len(pre.lists) :
            (~pre.lists[i].synced /\ pre.lists[i].uid \notin CalIds(pre.remote))
                => \E j \in 1..Len(lists) :
                      lists[j].uid = pre.lists[i].uid /\ lists[j].synced

\* C5, amended: for every local list with synced=false and deleted=false whose
\* uid is not the id of a task-capable calendar, after a sync() that reaches its
\* end the list's synced flag is true; the calendar exists when the creation
\* succeeded and does not when it failed.
C5_NewListSynced ==
    outcome = "done" =>
        \A i \in 1..Len(pre.lists) :
            LET l == pre.lists[i]
            IN (~l.synced /\ ~l.deleted /\ ~VtodoCal(pre.remote, l.uid))
                => /\ \E j \in 1..Len(lists) : lists[j].uid = l.uid /\ lists[j].synced
                   /\ VtodoCal(remote, l.uid) <=> <<"make_calendar", l.uid>> \notin failed

\* a completed run set the flag of a list whose calendar could not be created
C5_Witness ==
    /\ outcome = "done"
    /\ \E i \in 1..Len(pre.lists) :
          /\ NewLocalList(pre.lists[i])
          /\ <<"make_calendar", pre.lists[i].uid>> \in failed
          /\ \E j \in 1..Len(lists) : lists[j].uid = pre.lists[i].uid /\ lists[j].synced

\* a task-capable calendar the store had no list for
Undiscovered(c) == c.vtodo /\ \A i \in 1..Len(pre.lists) : pre.lists[i].uid # c.id

\* C6: discovery.  For every task-capable remote calendar whose id matches no
\* local list at the start of sync(), after a run that passed its first probe
\* exactly one local list has that uid, with synced=true and the remote name, and
\* it appears exactly once in lists_to_add.
C6_Discovery ==
    outcome \in {"done", "probe2", "raised"} =>
        \A n \in 1..Len(pre.remote) :
            LET c == pre.remote[n]
            IN Undiscovered(c) =>
                /\ Cardinality({j \in 1..Len(lists) : lists[j].uid = c.id}) = 1
                /\ ListOf(lists, c.id).synced
                /\ ListOf(lists, c.id).name = c.name
                /\ Cardinality({j \in 1..Len(update_ui_args.lists_to_add) :
                                   update_ui_args.lists_to_add[j].uid = c.id}) = 1

\* a completed run copied a calendar into the store
C6_Witness ==
    /\ outcome = "done"
    /\ \E n \in 1..Len(pre.remote) :
          /\ Undiscovered(pre.remote[n])
          /\ <<"add_local_list", pre.remote[n].id, "">> \in acts

\* C7: Pull.  For a local task with synced=true whose uid exists on the remote
\* calendar, after a sync() that reaches its end: if the remote copy differs in
\* a syncable attribute, every such attribute of the local task equals the remote
\* value and the task is queued in tasks_to_update with the tags and trash dirty
\* flags set; if none differs, the task is unchanged and not queued.
C7_Pull ==
    outcome = "done" =>
        \A i \in 1..Len(pre.tasks) :
            LET t == pre.tasks[i]
            IN (t.synced /\ MetOnRemote(t)) =>
                /\ TaskIn(tasks, t.list_uid, t.uid)
                /\ IF Differing(RemoteCopy(t), t) # {}
                   THEN /\ \A k \in TaskKeys \ Bookkeeping :
                              TaskOf(tasks, t.list_uid, t.uid)[k] = RemoteCopy(t)[k]
                        /\ Queued(update_ui_args.tasks_to_update, t)
                        /\ update_ui_args.update_tags
                        /\ update_ui_args.update_trash
                   ELSE /\ TaskOf(tasks, t.list_uid, t.uid) = t
                        /\ ~Queued(update_ui_args.tasks_to_update, t)

\* a completed run pulled a changed attribute into a synced task
C7_Witness ==
    /\ outcome = "done"
    /\ \E i \in 1..Len(pre.tasks) :
          LET t == pre.tasks[i]
          IN /\ t.synced /\ MetOnRemote(t)
             /\ Differing(RemoteCopy(t), t) # {}
             /\ <<"pull", t.list_uid, t.uid>> \in acts
             /\ TaskOf(tasks, t.list_uid, t.uid) # t

\* C8: field-partial update.  When exactly one syncable attribute of the remote
\* copy of a synced task differs from the local copy, Pull writes that attribute
\* and no other field of the task: every other attribute and the bookkeeping
\* fields are as they were.
C8_PartialUpdate ==
    outcome = "done" =>
        \A i \in 1..Len(pre.tasks) :
            LET t == pre.tasks[i]
            IN (t.synced /\ MetOnRemote(t)
                  /\ Cardinality(Differing(RemoteCopy(t), t)) = 1)
                => /\ {w[3] : w \in {x \in wlog : x[1] = t.list_uid /\ x[2] = t.uid}}
                          = Differing(RemoteCopy(t), t)
                   /\ \A k \in TaskKeys \ Differing(RemoteCopy(t), t) :
                          TaskOf(tasks, t.list_uid, t.uid)[k] = t[k]
                   /\ \A k \in Differing(RemoteCopy(t), t) :
                          TaskOf(tasks, t.list_uid, t.uid)[k] = RemoteCopy(t)[k]

\* a completed run pulled the one differing attribute into a task whose
\* bookkeeping fields differ from the defaults of a decoded to-do
C8_Witness ==
    /\ outcome = "done"
    /\ \E i \in 1..Len(pre.tasks) :
          LET t == pre.tasks[i]
          IN /\ t.synced /\ MetOnRemote(t)
             /\ Cardinality(Differing(RemoteCopy(t), t)) = 1
             /\ t.expanded /\ t.trash /\ t.deleted
             /\ <<"pull", t.list_uid, t.uid>> \in acts
             /\ <<t.list_uid, t.uid, "priority">> \in wlog

\* C9: Delete-local.  For every local task with synced=true whose uid is absent
\* from its calendar's remote to-dos, after a sync() that reaches its end the task
\* is gone from the local store, it is in tasks_to_purge, and both the trash and
\* the tags dirty flags are set.
C9_DeleteLocal ==
    outcome = "done" =>
        \A i \in 1..Len(pre.tasks) :
            LET t == pre.tasks[i]
            IN (t.synced /\ MetAbsent(t)) =>
                /\ ~TaskIn(tasks, t.list_uid, t.uid)
                /\ Queued(update_ui_args.tasks_to_purge, t)
                /\ update_ui_args.update_trash
                /\ update_ui_args.update_tags

\* a completed run purged a synced task that the calendar no longer holds
C9_Witness ==
    /\ outcome = "done"
    /\ \E i \in 1..Len(pre.tasks) :
          LET t == pre.tasks[i]
          IN /\ t.synced /\ MetAbsent(t)
             /\ <<"delete_local", t.list_uid, t.uid>> \in acts
             /\ ~TaskIn(tasks, t.list_uid, t.uid)

\* C10 as stated: the UI refresh is delivered exactly once per sync() call,
\* whatever the outcome of the run, a failed first or second probe included.
C10_RefreshEveryRun == refreshes = runs

\* the step is a call of sync()
SyncStep == runs' = runs + 1

\* C10, amended: a sync() call queues the UI refresh at most once: exactly once
\* when the run reaches the end of sync(), which is after every local-store
\* mutation of the run, and not at all when the first or the second probe fails
\* or an uncaught failure leaves sync(); the refresh itself changes nothing in
\* the local store.
C10_RefreshOncePerCompletedRun ==
    [][/\ SyncStep =>
            /\ refreshes' - refreshes = idle' - idle
            /\ (~principal \/ <<"probe1", "">> \in failed' \/ <<"probe2", "">> \in failed'
                  \/ outcome' = "raised") => refreshes' = refreshes
            /\ ~(~principal \/ <<"probe1", "">> \in failed' \/ <<"probe2", "">> \in failed'
                  \/ outcome' = "raised") => refreshes' = refreshes + 1
       /\ ~SyncStep => (idle' = idle - 1 /\ UNCHANGED <<lists, tasks, refreshes>>)]_vars

\* a run changed the local store, then lost its second probe and queued no refresh
C10_Witness ==
    /\ outcome = "probe2"
    /\ lists # pre.lists
    /\ refreshes = 0 /\ runs = 1

\* the two probes, whose failure ends the run by design
Probes == {<<"probe1", "">>, <<"probe2", "">>}

\* C11 as stated: failure isolation.  Apart from a failed probe, the failure of
\* a single remote operation on one list or one task (rename or delete a
\* calendar, fetch a calendar's to-dos, look up, save or delete a to-do) never
\* aborts the run: the run reaches its end and the UI refresh is delivered.
C11_FailureIsolated ==
    (runs >= 1 /\ principal /\ failed # {} /\ failed \cap Probes = {})
        => outcome = "done"

\* the store holds a list with this uid
ListIn(ls, uid) == \E i \in 1..Len(ls) : ls[i].uid = uid

\* C12: purge safety.  Whenever sync() removes a list or a task from the local
\* store, the task-capable calendar of the list, or the to-do of the task on its
\* calendar, does not exist on the server at that moment; and nothing leaves the
\* store in a run other than by such a removal.
C12_PurgeSafe ==
    /\ \A p \in purges : ~p[3]
    /\ \A i \in 1..Len(pre.lists) :
          ~ListIn(lists, pre.lists[i].uid) => <<pre.lists[i].uid, "", FALSE>> \in purges
    /\ \A i \in 1..Len(pre.tasks) :
          LET t == pre.tasks[i]
          IN ~TaskIn(tasks, t.list_uid, t.uid)
                => (<<t.list_uid, t.uid, FALSE>> \in purges
                      \/ <<t.list_uid, "", FALSE>> \in purges)

\* a run purged a tombstoned list right after it had deleted its calendar, and
\* purged a list whose calendar the probe did not return
C12_Witness ==
    /\ outcome = "done"
    /\ \E u, v \in ListUids :
          /\ u # v
          /\ <<"delete_remote_list", u, "">> \in acts
          /\ VtodoCal(pre.remote, u)
          /\ <<u, "", FALSE>> \in purges
          /\ <<"delete_local_list", v, "">> \in acts
          /\ <<v, "", FALSE>> \in purges

\* the phase of a step of the UI refresh
PhaseOf(step) ==
    CASE step[1] = "purge_list"  -> 1
      [] step[1] = "add_list"    -> 2
      [] step[1] = "rename_list" -> 3
      [] step[1] = "purge_task"  -> 4
      [] step[1] = "add_task"    -> 5
      [] step[1] = "update_task" -> 6
      [] OTHER                   -> 7

\* C13: the UI refresh applies the change-set in the order purge lists, add
\* lists, rename lists, purge tasks, add tasks, update tasks, then the two
\* dirty-flag refreshes: no step of a later phase runs before a step of an
\* earlier phase.
C13_RefreshOrder ==
    \A i, j \in 1..Len(ui_log) : i < j => PhaseOf(ui_log[i]) <= PhaseOf(ui_log[j])

\* a refresh purged a list row, added another and refreshed the trash view
C13_Witness ==
    /\ \E i \in 1..Len(ui_log) : ui_log[i][1] = "purge_list"
    /\ \E i \in 1..Len(ui_log) : ui_log[i][1] = "add_list"
    /\ \E i \in 1..Len(ui_log) : ui_log[i][1] = "update_trash"

\* C14: if the first calendar probe of sync() fails, the run aborts silently: no
\* local list or task is created, changed or purged, no remote write is issued,
\* no toast is shown and no UI refresh is scheduled; a sync() on a provider whose
\* connection was never established is such a run.
C14_FirstProbeFailure ==
    [][(SyncStep /\ (~principal \/ <<"probe1", "">> \in failed'))
          => /\ UNCHANGED <<lists, tasks, remote, toasts, idle, refreshes, sidebar,
                            ui_tasks, ui_log>>
             /\ acts' = {} /\ wlog' = {} /\ purges' = {}
             /\ failed' \subseteq {<<"probe1", "">>}
             /\ outcome' = "probe1"]_vars

\* a run lost its first probe while a new local list was waiting for its calendar
C14_Witness ==
    /\ outcome = "probe1"
    /\ <<"probe1", "">> \in failed
    /\ \E i \in 1..Len(pre.lists) : NewLocalList(pre.lists[i])
    /\ lists = pre.lists /\ remote = pre.remote

\* the actions of a run that reconcile a list or a task against a calendar found
\* on the server
MatchedActions ==
    {"add_local_list", "rename_remote_list", "rename_local_list", "delete_remote_list",
     "pull", "push", "create_remote", "delete_local", "delete_remote", "pull_create"}

\* C15: only calendars that support to-dos are in the working set.  For a
\* calendar without the capability sync() never creates a local list, never
\* renames, pulls, pushes, creates or deletes anything against it, leaves it as
\* it is, and treats its id as absent: a synced list of that uid is purged and an
\* unsynced one gets its creation attempted.
C15_OnlyTaskCapable ==
    \A n \in 1..Len(pre.remote) :
        LET c == pre.remote[n]
        IN ~c.vtodo =>
            /\ \A a \in acts : a[2] = c.id => a[1] \notin MatchedActions
            /\ c \in Range(remote)
            /\ ~ListIn(pre.lists, c.id) => ~ListIn(lists, c.id)
            /\ outcome = "done" =>
                 \A i \in 1..Len(pre.lists) :
                    LET l == pre.lists[i]
                    IN l.uid = c.id =>
                        /\ (l.synced /\ ~l.deleted)
                              => <<"delete_local_list", l.uid, "">> \in acts
                        /\ (~l.synced /\ ~l.deleted)
                              => <<"create_local_list", l.uid, "">> \in acts

\* a completed run purged a synced list whose uid is the id of a calendar
\* without the to-do capability
C15_Witness ==
    /\ outcome = "done"
    /\ \E n \in 1..Len(pre.remote) :
          /\ ~pre.remote[n].vtodo
          /\ pre.remote[n] \in Range(remote)
          /\ ListIn(pre.lists, pre.remote[n].id)
          /\ <<"delete_local_list", pre.remote[n].id, "">> \in acts

\* C16 as stated: when the calendar creation for a new local list failed in one
\* run, a later run with a working remote resolves the gap: the list still
\* exists in the local store and exists on the remote side.
C16_FailedCreationResolved ==
    (runs = 2 /\ prev_outcome = "done" /\ outcome = "done" /\ failed = {}) =>
        \A u \in ListUids :
            <<"make_calendar", u>> \in prev_failed
                => ListIn(lists, u) /\ VtodoCal(remote, u)

\* the to-do of a task on the server now, decoded
RemoteNow(t) ==
    LET cal == CalById(remote, t.list_uid)
    IN DecodeTodo(cal.todos[CHOOSE k \in 1..Len(cal.todos) : cal.todos[k].uid = t.uid],
                  t.list_uid)

\* C17 as stated: unsynced tasks win.  For every local task with synced=false,
\* sync() writes the local field values to the remote side, by Push when the uid
\* exists remotely and by Create-remote when it does not; when the write succeeds
\* the task has synced=true, when it fails the flag stays false.
C17_UnsyncedTasksWin ==
    outcome = "done" =>
        \A i \in 1..Len(pre.tasks) :
            LET t == pre.tasks[i]
            IN (~t.synced /\ VtodoCal(remote, t.list_uid)) =>
                /\ TaskIn(tasks, t.list_uid, t.uid)
                /\ IF TodoIn(pre.remote, t.list_uid, t.uid)
                   THEN <<"push", t.list_uid, t.uid>> \in acts
                   ELSE <<"create_remote", t.list_uid, t.uid>> \in acts
                /\ IF <<"save", t.uid>> \notin failed
                   THEN /\ TodoIn(remote, t.list_uid, t.uid)
                        /\ Differing(RemoteNow(t), t) = {}
                        /\ TaskOf(tasks, t.list_uid, t.uid).synced
                   ELSE ~TaskOf(tasks, t.list_uid, t.uid).synced

\* C18 as stated: remote-side list deletion.  Every local list with synced=true
\* and deleted=false whose uid is not among the remote calendar ids is, after a
\* sync() in which no remote operation fails, gone from the local store, with its
\* uid in lists_to_purge_uids and the trash and tags flags set, also when the
\* server has no task-capable calendar at all.
C18_RemoteDeletionPurges ==
    (runs >= 1 /\ principal /\ failed = {}) =>
        \A i \in 1..Len(pre.lists) :
            LET l == pre.lists[i]
            IN (l.synced /\ ~l.deleted /\ ~VtodoCal(pre.remote, l.uid)) =>
                /\ ~ListIn(lists, l.uid)
                /\ l.uid \in Range(update_ui_args.lists_to_purge_uids)
                /\ update_ui_args.update_trash
                /\ update_ui_args.update_tags

\* a tombstoned, synced list whose calendar the server holds
DeletedOnBothSides(l) == l.deleted /\ l.synced /\ VtodoCal(pre.remote, l.uid)

\* C19: local-side list deletion propagation.  For a local list with
\* deleted=true and synced=true whose uid exists remotely, sync() deletes the
\* remote calendar first and purges the local record only then: a completed run
\* leaves neither, the record is never gone while the calendar exists, and when
\* the remote deletion fails the tombstone stays in the store.
C19_LocalDeletionPropagates ==
    \A i \in 1..Len(pre.lists) :
        LET l == pre.lists[i]
        IN DeletedOnBothSides(l) =>
            /\ outcome = "done"
                 => /\ ~ListIn(lists, l.uid)
                    /\ ~VtodoCal(remote, l.uid)
                    /\ <<l.uid, "", FALSE>> \in purges
            /\ <<l.uid, "", TRUE>> \notin purges
            /\ ~ListIn(lists, l.uid) => ~VtodoCal(remote, l.uid)
            /\ <<"delete_cal", l.uid>> \in failed
                 => /\ ListIn(lists, l.uid)
                    /\ ListOf(lists, l.uid).deleted
                    /\ VtodoCal(remote, l.uid)

\* a run could not delete the calendar of a tombstoned list and kept the tombstone
C19_Witness ==
    \E i \in 1..Len(pre.lists) :
        /\ DeletedOnBothSides(pre.lists[i])
        /\ <<"delete_cal", pre.lists[i].uid>> \in failed
        /\ ListIn(lists, pre.lists[i].uid)
        /\ VtodoCal(remote, pre.lists[i].uid)

\* the list actions of the reconciliation loop
ListActions ==
    {"rename_remote_list", "rename_local_list", "delete_local_list",
     "delete_remote_list", "create_local_list"}

\* C20 as stated: for every local list and every run of sync(), at most one of
\* the list actions rename (remote or local), delete (local or remote) and
\* create-remote is applied to that list in that run.
C20_OneListAction ==
    \A u \in ListUids :
        Cardinality({a \in acts : a[2] = u /\ a[1] \in ListActions}) <= 1

\* the list and the task-capable calendar of its uid carry different names
NamesDiffer(l) ==
    VtodoCal(pre.remote, l.uid) /\ CalById(pre.remote, l.uid).name # l.name

\* the list loop of the last run went through every list
ListsReconciled == outcome \in {"done", "probe2"}

\* C21: rename push.  When a local list and the remote calendar of the same uid
\* have different names and the list has synced=false, sync() sets the
\* calendar's display name to the local name, leaves the local name unchanged,
\* leaves the list with synced=false and queues nothing in lists_to_update_name.
C21_RenamePush ==
    \A i \in 1..Len(pre.lists) :
        LET l == pre.lists[i]
        IN (NamesDiffer(l) /\ ~l.synced) =>
            /\ ListsReconciled
                 => /\ VtodoCal(remote, l.uid)
                    /\ CalById(remote, l.uid).name = l.name
                    /\ <<"rename_remote_list", l.uid, "">> \in acts
            /\ ListIn(lists, l.uid)
            /\ ListOf(lists, l.uid).name = l.name
            /\ ~ListOf(lists, l.uid).synced
            /\ outcome \in {"done", "probe2", "raised"}
                 => l.uid \notin Range(update_ui_args.lists_to_update_name)

\* a completed run pushed the local name "b" of an unsynced list to its calendar
C21_Witness ==
    /\ outcome = "done"
    /\ \E i \in 1..Len(pre.lists) :
          LET l == pre.lists[i]
          IN /\ NamesDiffer(l) /\ ~l.synced /\ l.name = "b"
             /\ <<"rename_remote_list", l.uid, "">> \in acts
             /\ CalById(remote, l.uid).name = "b"

\* what rename pull leaves behind for the list l
RenamePulled(l) ==
    /\ ListIn(lists, l.uid)
    /\ ListOf(lists, l.uid).name = CalById(pre.remote, l.uid).name
    /\ ListOf(lists, l.uid).synced
    /\ l.uid \in Range(update_ui_args.lists_to_update_name)
    /\ update_ui_args.update_trash
    /\ VtodoCal(remote, l.uid)
    /\ CalById(remote, l.uid).name = CalById(pre.remote, l.uid).name

PulledChild(i) ==
    LET q == update_ui_args.tasks_to_add
    IN /\ q[i].parent # ""
       /\ \E j \in 1..(i - 1) : q[j].uid = q[i].parent

\* the only run so far reached its end and its refresh has been executed
RefreshedOnce == runs = 1 /\ outcome = "done" /\ idle = 0

StoredNow(t) ==
    LET cal == CalById(remote, t.list_uid)
    IN cal.todos[CHOOSE k \in 1..Len(cal.todos) : cal.todos[k].uid = t.uid]

\* the to-do of a task on the server as the last run found it
StoredBefore(t) ==
    LET cal == CalById(pre.remote, t.list_uid)
    IN cal.todos[CHOOSE k \in 1..Len(cal.todos) : cal.todos[k].uid = t.uid]

Converged ==
    /\ TwoCleanRuns
    /\ lists = pre.lists /\ tasks = pre.tasks /\ remote = pre.remote

\* C26 as stated: tombstoned lists converge.  Under repeated sync() runs with a
\* working remote and no further edits, every local list with deleted=true is
\* eventually purged from the local store with no calendar of its uid left on
\* the server, whatever its synced flag and whether or not such a calendar
\* exists: once the runs change nothing any more, no tombstone is left.
C26_TombstonedListsPurged ==
    Converged =>
        \A i \in 1..Len(lists) : ~lists[i].deleted

\* C24: the change-set a UI-refresh callback applies is the one built by the
\* sync() run that scheduled it, also when a second sync() call started before the
\* deferred refresh of the first run executed
C24_RefreshAppliesOwnChangeSet ==
    [][FinishSync => update_ui_args = Head(scheduled)]_vars

\* C27: after construction can_sync is true only if the principal was obtained
\* and the task-capable calendars were enumerated
C27_CanSyncOnlyWithSession ==
    (runs = 0 /\ can_sync) => (principal /\ has_calendars)

\* one row per list with deleted = false, and no other row
RowsShowStore(rows, ls) ==
    \A u \in Range(rows) \cup {ls[i].uid : i \in 1..Len(ls)} :
        Count(rows, u) = IF \E i \in 1..Len(ls) : ls[i].uid = u /\ ~ls[i].deleted
                         THEN 1 ELSE 0

\* C28: after load_task_lists on an empty sidebar and after update_task_lists on
\* any sidebar there is exactly one row per local list with deleted = false and no
\* row for a list with deleted = true or for a uid absent from the store
C28_SameRowsWhicheverOperation ==
    [][(LoadTaskLists \/ UpdateTaskLists) => RowsShowStore(sidebar', lists')]_vars

====
